---------------------------- MODULE Spec2Model ----------------------------
(***************************************************************************)
(* AI suggestion lifecycle of the editor: the streaming source adapter     *)
(* (lib/ai), the position-tracked insertion engine (components/Editor)     *)
(* and the lifecycle machine that drives them (machines/editorMachine,     *)
(* whose source is not part of src/ and is modelled from spec.md 4.3).     *)
(*                                                                         *)
(* The document is one paragraph of text.  A character of it is a record   *)
(* [ch, em]; em is the italic mark that tags generated text.  Offsets are  *)
(* 0-based text offsets: ProseMirror position p of the one-paragraph       *)
(* document is offset p - 1, and doc.content.size - 1 is offset Len(doc).  *)
(*                                                                         *)
(* Under Spec the Editor stays mounted on one document; SpecDocuments, at  *)
(* the end of the module, is the same program when the user also works the *)
(* document list of the sidebar, types, and leaves and re-enters the       *)
(* editor, and SpecDocumentSessions adds the suggestions to that.  The     *)
(* user acts through the                                                   *)
(* controls the components render (selection, ControlBar, the selection    *)
(* toolbar, the hover toolbar, the AI commands of the slash menu); other   *)
(* typing into the text is left out, as spec.md 5 puts edits made during a *)
(* session outside the guarantee.  The user is slower than the debounce of *)
(* the save.  The adapter yields one character at a time, 5 ms apart, and  *)
(* the Editor re-renders on each, so an update of apiText carries one      *)
(* character.                                                              *)
(***************************************************************************)
EXTENDS Integers, Sequences, FiniteSets, TLC

VARIABLES
    mode,                 \* machine state: idle / streaming / pending / modifying
    generatedText,        \* machine context.generatedText (apiText of the Editor)
    error,                \* machine context.error is set
    openStreams,          \* ids of the outbound streams that are open
    opened,               \* number of streams opened so far
    chunksSeen,           \* transport chunks received so far, over all streams
    queue,                \* characters of the cleaned chunk not yet yielded
    inflight,             \* fragment yielded by the adapter, not yet at the machine
    doc,                  \* the document: Seq([ch, em])
    sel,                  \* view.state.selection: [from, to]
    selectedText,         \* React state selectedText
    showSelectionToolbar, \* React state showSelectionToolbar
    lastInsertedLength,   \* lastInsertedLengthRef  (emittedLength)
    aiTextStartPos,       \* aiTextStartPosRef      (startPosition)
    isReplacingSelection, \* isReplacingSelectionRef (replacesSelection)
    originalText,         \* originalTextRef
    selectionRange,       \* selectionRangeRef
    currentContent,       \* activeDocument.content (last saved text)
    saveTimer,            \* the debounced save is pending
    fault,                \* an insertion targeted an offset outside the text
    lastOp,               \* history: the operation that produced this state
    insertedAt,           \* history: offset of the insertion lastOp made, or NULL
    insertedCount,        \* history: characters inserted for the current stream
    delivered,            \* history: fragments the machine took for the current stream
    sess,                 \* history: how the current session was started
    stopped,              \* history: the stream stop was last invoked for
    anchorAtModify,       \* history: aiTextStartPos when modify was invoked, or NULL
    request,              \* history: the generation request lastOp sent, or NoRequest
    documents,            \* DocumentProvider: the documents, Seq([id, content])
    activeDocId,          \* DocumentProvider: id of the active document, or NULL
    nextId,               \* the id generateId hands out next
    pendingSave,          \* saveTimeoutRef: the save the armed timer will make, or NoSave
    showEditor,           \* App: EditorApp (machine, Editor, sidebar) is mounted
    edited                \* history: the last text each document's Editor reported,
                          \*          the latest report first

vars == <<mode, generatedText, error, openStreams, opened, chunksSeen, queue,
          inflight, doc, sel, selectedText, showSelectionToolbar,
          lastInsertedLength, aiTextStartPos, isReplacingSelection,
          originalText, selectionRange, currentContent, saveTimer, fault,
          lastOp, insertedAt, insertedCount, delivered, sess, stopped,
          anchorAtModify, request, documents, activeDocId, nextId,
          pendingSave, showEditor, edited>>

\* the variables of the document list and of the save, which stay as they
\* are while the Editor is mounted on one document and the save is followed
\* through currentContent and saveTimer alone
storeVars == <<documents, activeDocId, nextId, pendingSave, showEditor, edited>>

(***************************************************************************)
(* Bounds of the model and program constants.                              *)
(***************************************************************************)
MaxStreams == 2
MaxChunks == 2
NULL == -1
MinSelection == 3

NL == "\n"
RawChunks == {<<"a", NL>>, <<" ">>}
\* the cursor positions and the range the user picks from
UserSelections(d) ==
    {s \in {[from |-> Len(d), to |-> Len(d)], [from |-> 1, to |-> 5],
             [from |-> 2, to |-> 5]} :
        s.to <= Len(d)}
InitText == <<"u", "v", "w", "x", "y", "z">>
NoRange == [from |-> NULL, to |-> NULL]
NoSession == [kind |-> "none", from |-> NULL, to |-> NULL, text |-> <<>>]
NoRequest == [type |-> "none"]
\* handleGenerate called without an action
NoAction == "none"
NoSave == [id |-> NULL, text |-> <<>>]
NoDocument == [id |-> NULL, content |-> <<>>]
\* the tone the ControlBar has selected
Tone == "professional"
\* the action of the slash menu's first AI command, of the first button of
\* the selection toolbar and of the first modify button of the hover toolbar
SlashAction == "expand"
SelectionAction == "summarize"
ModifyAction == "shorten"

(***************************************************************************)
(* Text and document helpers (the capability surface of spec.md 6).        *)
(***************************************************************************)
TextOf(d) == [i \in 1..Len(d) |-> d[i].ch]
Plain(s) == [i \in 1..Len(s) |-> [ch |-> s[i], em |-> FALSE]]
Marked(s) == [i \in 1..Len(s) |-> [ch |-> s[i], em |-> TRUE]]
InsertAt(d, pos, ins) == SubSeq(d, 1, pos) \o ins \o SubSeq(d, pos + 1, Len(d))
DeleteRange(d, a, b) == SubSeq(d, 1, a) \o SubSeq(d, b + 1, Len(d))
RemoveMark(d, a, b) ==
    [i \in 1..Len(d) |-> IF i > a /\ i <= b THEN [d[i] EXCEPT !.em = FALSE] ELSE d[i]]
MapInsert(p, at, k) == IF p >= at THEN p + k ELSE p
MapDelete(p, a, b) == IF p <= a THEN p ELSE IF p >= b THEN p - (b - a) ELSE a
EndPos(d) == Len(d)

IsSpace(c) == c \in {" ", NL}
IsNewline(c) == c = NL

RECURSIVE SkipWhile(_, _)
SkipWhile(s, kind) ==
    IF s = <<>> THEN <<>>
    ELSE IF (kind = "nl" /\ IsNewline(Head(s))) \/ (kind = "ws" /\ IsSpace(Head(s)))
         THEN SkipWhile(Tail(s), kind)
         ELSE s

\* .replace(/[\r\n]+/g, " ")
RECURSIVE ReplaceNewlines(_)
ReplaceNewlines(s) ==
    IF s = <<>> THEN <<>>
    ELSE IF IsNewline(Head(s))
         THEN <<" ">> \o ReplaceNewlines(SkipWhile(s, "nl"))
         ELSE <<Head(s)>> \o ReplaceNewlines(Tail(s))

\* .replace(/\s{2,}/g, " ")
RECURSIVE CollapseSpaces(_)
CollapseSpaces(s) ==
    IF s = <<>> THEN <<>>
    ELSE IF IsSpace(Head(s))
         THEN LET rest == SkipWhile(s, "ws")
              IN IF Len(s) - Len(rest) >= 2
                 THEN <<" ">> \o CollapseSpaces(rest)
                 ELSE <<Head(s)>> \o CollapseSpaces(rest)
         ELSE <<Head(s)>> \o CollapseSpaces(Tail(s))

\* the adapter's cleaning of one transport chunk
CleanChunk(chunkText) == CollapseSpaces(ReplaceNewlines(chunkText))
\* the Editor's normalisation of the increment it is about to insert
NormalizeNewChunk(newChunk) == CollapseSpaces(ReplaceNewlines(newChunk))

(***************************************************************************)
(* The lifecycle machine (machines/editorMachine).  Its source is not in   *)
(* src/; the transitions are those of the table of spec.md 4.3, with       *)
(* "Mode idle implies no session data is retained" (spec.md 3) for the     *)
(* context.  m is [mode, generatedText, error, openStreams, opened].       *)
(***************************************************************************)
Machine == [mode |-> mode, generatedText |-> generatedText, error |-> error,
            openStreams |-> openStreams, opened |-> opened]

Active(m) == m.mode \in {"streaming", "modifying"}

StartStream(m, st) ==
    [mode |-> st, generatedText |-> <<>>, error |-> FALSE,
     openStreams |-> m.openStreams \cup {m.opened + 1}, opened |-> m.opened + 1]

ToIdle(m, err) ==
    [m EXCEPT !.mode = "idle", !.generatedText = <<>>, !.error = err,
              !.openStreams = {}]

OnGenerate(m) == IF m.mode = "idle" THEN StartStream(m, "streaming") ELSE m

OnFragment(m, ev) ==
    IF Active(m) /\ ev.sid \in m.openStreams
    THEN [m EXCEPT !.generatedText = Append(@, ev.ch)]
    ELSE m

OnComplete(m, ev) ==
    IF Active(m) /\ ev.sid \in m.openStreams
    THEN [m EXCEPT !.mode = "pending", !.openStreams = {}]
    ELSE m

OnFail(m, ev) ==
    IF Active(m) /\ ev.sid \in m.openStreams THEN ToIdle(m, TRUE) ELSE m

OnStop(m) ==
    IF m.mode = "streaming"
    THEN IF m.generatedText # <<>>
         THEN [m EXCEPT !.mode = "pending", !.openStreams = {}]
         ELSE ToIdle(m, FALSE)
    ELSE m

OnDecision(m) == IF m.mode = "pending" THEN ToIdle(m, FALSE) ELSE m

OnModify(m) == IF m.mode = "pending" THEN StartStream(m, "modifying") ELSE m

Transition(m, ev) ==
    CASE ev.type \in {"GENERATE", "GENERATE_WITH_ACTION"} -> OnGenerate(m)
      [] ev.type = "FRAGMENT" -> OnFragment(m, ev)
      [] ev.type = "COMPLETE" -> OnComplete(m, ev)
      [] ev.type = "FAIL" -> OnFail(m, ev)
      [] ev.type = "STOP" -> OnStop(m)
      [] ev.type \in {"ACCEPT", "REJECT"} -> OnDecision(m)
      [] ev.type = "MODIFY" -> OnModify(m)

(***************************************************************************)
(* The Editor component.  e is the record of its refs, its React state and *)
(* the ProseMirror view state it owns.                                     *)
(***************************************************************************)
EditorState ==
    [doc |-> doc, sel |-> sel, selectedText |-> selectedText,
     showSelectionToolbar |-> showSelectionToolbar,
     last |-> lastInsertedLength, start |-> aiTextStartPos,
     replacing |-> isReplacingSelection, original |-> originalText,
     range |-> selectionRange, saveTimer |-> saveTimer, fault |-> fault,
     insertedAt |-> NULL, insertedCount |-> insertedCount]

\* to - from > 3: only selections of more than three positions qualify
Qualifies(s) == s.from # s.to /\ s.to - s.from > MinSelection

\* dispatchTransaction: apply, report a changed document to onUpdate (which
\* re-arms the debounced save), recompute the selection toolbar state
Dispatch(e, d, s, docChanged) ==
    [e EXCEPT !.doc = d, !.sel = s,
              !.saveTimer = e.saveTimer \/ docChanged,
              !.selectedText = IF Qualifies(s)
                               THEN TextOf(SubSeq(d, s.from + 1, s.to))
                               ELSE <<>>,
              !.showSelectionToolbar = Qualifies(s)]

\* mutant: the effect cleans the suggestion up when apiText is cleared
EffectOnNoText_Deletes(e) ==
    IF e.start # NULL
    THEN [e EXCEPT !.doc = DeleteRange(e.doc, e.start, e.start + e.last), !.last = 0]
    ELSE [e EXCEPT !.last = 0]

\* mutant: the effect leaves the recorded length alone when apiText is cleared
EffectOnNoText_Keeps(e) == e

\* the branch of the streaming effect taken when apiText is empty or null
EffectOnNoText(e) == [e EXCEPT !.last = 0]

\* mutant: the recorded length runs one ahead of the text
RecordedLength_OffByOne(e, apiText) == Len(apiText) + 1

\* the length the effect records after handling an increment
RecordedLength(e, apiText) == Len(apiText)

\* mutant: the anchor follows every insertion
AnchorAfter_Always(e, insertPos) == insertPos

\* "Track where AI text starts (only on first chunk)"
AnchorAfter(e, insertPos) == IF e.start = NULL THEN insertPos ELSE e.start

\* mutant: every increment is inserted at the anchor itself
InsertPos_AtAnchor(e) == IF e.start # NULL THEN e.start ELSE e.sel.from

\* the offset the effect inserts at
InsertPos(e) == IF e.start # NULL THEN e.start + e.last ELSE e.sel.from

\* useEffect(..., [apiText]): insert what apiText gained since the last run
StreamingEffect(e, apiText) ==
    IF apiText = <<>> THEN EffectOnNoText(e)
    ELSE IF Len(apiText) > e.last
    THEN LET newChunk == NormalizeNewChunk(SubSeq(apiText, e.last + 1, Len(apiText)))
             insertPos == InsertPos(e)
         IN  IF newChunk # <<>>
             THEN IF insertPos > Len(e.doc)
                  THEN [e EXCEPT !.fault = TRUE]
                  ELSE LET e1 == [e EXCEPT !.start = AnchorAfter(e, insertPos)]
                           d  == InsertAt(e.doc, insertPos, Marked(newChunk))
                           s  == [from |-> MapInsert(e.sel.from, insertPos, Len(newChunk)),
                                  to   |-> MapInsert(e.sel.to, insertPos, Len(newChunk))]
                       IN  [Dispatch(e1, d, s, TRUE) EXCEPT
                               !.last = RecordedLength(e, apiText),
                               !.insertedAt = insertPos,
                               !.insertedCount = @ + Len(newChunk)]
             ELSE [e EXCEPT !.last = RecordedLength(e, apiText)]
    ELSE e

\* the effect runs when the apiText prop has changed
RunEffect(e, old, new) == IF new = old THEN e ELSE StreamingEffect(e, new)

ResetRefs(e) ==
    [e EXCEPT !.start = NULL, !.replacing = FALSE, !.original = <<>>,
              !.range = NoRange]

\* the range accept, reject and modify act on: [startPos, endPos)
SuggestionEnd(e) == EndPos(e.doc)

HasEm(d, a, b) == \E i \in 1..Len(d) : i > a /\ i <= b /\ d[i].em

HandleAccept(e) ==
    LET e1 == IF e.start # NULL
              THEN Dispatch(e, RemoveMark(e.doc, e.start, SuggestionEnd(e)), e.sel,
                            HasEm(e.doc, e.start, SuggestionEnd(e)))
              ELSE e
    IN  ResetRefs(e1)

\* mutant: reject deletes the suggestion and forgets the captured selection
HandleReject_NoRestore(e) ==
    LET a == e.start
        b == SuggestionEnd(e)
        s == [from |-> MapDelete(e.sel.from, a, b), to |-> MapDelete(e.sel.to, a, b)]
        e1 == IF e.start # NULL THEN Dispatch(e, DeleteRange(e.doc, a, b), s, a < b)
              ELSE e
    IN  [ResetRefs(e1) EXCEPT !.last = 0]

HandleReject(e) ==
    LET a == e.start
        b == SuggestionEnd(e)
        restore == e.replacing /\ e.original # <<>>
        d1 == DeleteRange(e.doc, a, b)
        d2 == IF restore THEN InsertAt(d1, a, Plain(e.original)) ELSE d1
        k  == IF restore THEN Len(e.original) ELSE 0
        s  == [from |-> MapInsert(MapDelete(e.sel.from, a, b), a, k),
               to   |-> MapInsert(MapDelete(e.sel.to, a, b), a, k)]
        e1 == IF e.start # NULL
              THEN Dispatch(e, d2, s, a < b \/ restore)
              ELSE e
    IN  [ResetRefs(e1) EXCEPT !.last = 0]

\* mutant: modify resets every ref, as reject does
HandleModify_ClearsAnchor(e) ==
    IF e.start # NULL
    THEN LET a == e.start
             b == SuggestionEnd(e)
             s == [from |-> MapDelete(e.sel.from, a, b),
                   to   |-> MapDelete(e.sel.to, a, b)]
         IN  [ResetRefs(Dispatch(e, DeleteRange(e.doc, a, b), s, a < b)) EXCEPT !.last = 0]
    ELSE e

HandleModify(e) ==
    IF e.start # NULL
    THEN LET a == e.start
             b == SuggestionEnd(e)
             s == [from |-> MapDelete(e.sel.from, a, b),
                   to   |-> MapDelete(e.sel.to, a, b)]
         IN  [Dispatch(e, DeleteRange(e.doc, a, b), s, a < b) EXCEPT !.last = 0]
    ELSE e

\* mutant: the deletion is dispatched and the anchor is left for the first
\* fragment to set
HandleSelectionAiAction_AnchorLater(e) ==
    IF e.selectedText # <<>>
    THEN LET from == e.sel.from
             to   == e.sel.to
             e1 == [e EXCEPT !.range = [from |-> from, to |-> to],
                             !.replacing = TRUE,
                             !.original = e.selectedText]
             e2 == Dispatch(e1, DeleteRange(e.doc, from, to),
                            [from |-> from, to |-> from], from < to)
         IN  [e2 EXCEPT !.last = 0, !.showSelectionToolbar = FALSE]
    ELSE e

\* mutant: the text is taken after the deletion has been dispatched
HandleSelectionAiAction_CaptureAfter(e) ==
    IF e.selectedText # <<>>
    THEN LET from == e.sel.from
             to   == e.sel.to
             e1 == [e EXCEPT !.range = [from |-> from, to |-> to],
                             !.replacing = TRUE]
             e2 == Dispatch(e1, DeleteRange(e.doc, from, to),
                            [from |-> from, to |-> from], from < to)
         IN  [e2 EXCEPT !.original = e2.selectedText,
                        !.start = from, !.last = 0,
                        !.showSelectionToolbar = FALSE]
    ELSE e

\* handleSelectionAiAction: remember the range and the text, delete the
\* selection and put the cursor there in one transaction, set the anchor to
\* the deletion point
HandleSelectionAiAction(e) ==
    IF e.selectedText # <<>>
    THEN LET from == e.sel.from
             to   == e.sel.to
             e1 == [e EXCEPT !.range = [from |-> from, to |-> to],
                             !.replacing = TRUE,
                             !.original = e.selectedText]
             e2 == Dispatch(e1, DeleteRange(e.doc, from, to),
                            [from |-> from, to |-> from], from < to)
         IN  [e2 EXCEPT !.start = from, !.last = 0, !.showSelectionToolbar = FALSE]
    ELSE e

(***************************************************************************)
(* State after construction: the Editor is mounted on a document whose     *)
(* saved content is InitText, the machine is idle, every ref has its       *)
(* initial value.                                                          *)
(***************************************************************************)
Init ==
    /\ mode = "idle" /\ generatedText = <<>> /\ error = FALSE
    /\ openStreams = {} /\ opened = 0
    /\ chunksSeen = 0 /\ queue = <<>> /\ inflight = <<>>
    /\ doc = Plain(InitText) /\ sel = [from |-> 0, to |-> 0]
    /\ selectedText = <<>> /\ showSelectionToolbar = FALSE
    /\ lastInsertedLength = 0 /\ aiTextStartPos = NULL
    /\ isReplacingSelection = FALSE /\ originalText = <<>>
    /\ selectionRange = NoRange
    /\ currentContent = InitText /\ saveTimer = FALSE
    /\ fault = FALSE
    /\ lastOp = "init" /\ insertedAt = NULL /\ insertedCount = 0
    /\ delivered = <<>> /\ sess = NoSession /\ stopped = {}
    /\ anchorAtModify = NULL /\ request = NoRequest
    /\ documents = <<[id |-> 1, content |-> InitText]>> /\ activeDocId = 1
    /\ nextId = 2 /\ pendingSave = NoSave /\ showEditor = TRUE
    /\ edited = <<>>

Adapter == [queue |-> queue, inflight |-> inflight, chunksSeen |-> chunksSeen]

\* a stream that has just been opened gets a fresh generator
AdapterAfter(m) == [Adapter EXCEPT !.queue = IF m.opened # opened THEN <<>> ELSE @]

\* the generator has returned or thrown: nothing of it is left
AdapterGone == [Adapter EXCEPT !.queue = <<>>, !.inflight = <<>>]

\* The history variables.  sess and insertedCount describe the session the
\* machine holds; they are kept through the step that ends it and dropped
\* by the next one.  stopped is kept while the stopped generator still has
\* characters to hand over.
History(m, e, a, op, started, frag) ==
    /\ lastOp' = op
    /\ insertedAt' = e.insertedAt
    /\ insertedCount' = IF m.opened # opened \/ mode = "idle" THEN 0
                        ELSE e.insertedCount
    /\ delivered' = IF m.opened # opened \/ m.mode = "idle" THEN <<>>
                    ELSE delivered \o frag
    /\ sess' = IF mode = "idle"
               THEN (IF m.mode # "idle" THEN started ELSE NoSession)
               ELSE sess
    /\ stopped' = IF op = "stop" THEN openStreams
                  ELSE IF a.queue = <<>> /\ a.inflight = <<>> THEN {}
                  ELSE stopped
    /\ anchorAtModify' = IF op = "modify" THEN aiTextStartPos
                         ELSE IF m.mode = "idle" THEN NULL
                         ELSE anchorAtModify

\* the next state but for the record of the request: machine m, Editor e,
\* adapter a
Update(m, e, a, op, started, frag) ==
    /\ mode' = m.mode /\ generatedText' = m.generatedText /\ error' = m.error
    /\ openStreams' = m.openStreams /\ opened' = m.opened
    /\ doc' = e.doc /\ sel' = e.sel /\ selectedText' = e.selectedText
    /\ showSelectionToolbar' = e.showSelectionToolbar
    /\ lastInsertedLength' = e.last /\ aiTextStartPos' = e.start
    /\ isReplacingSelection' = e.replacing /\ originalText' = e.original
    /\ selectionRange' = e.range /\ saveTimer' = e.saveTimer
    /\ fault' = e.fault
    /\ queue' = a.queue /\ inflight' = a.inflight /\ chunksSeen' = a.chunksSeen
    /\ History(m, e, a, op, started, frag)

\* the next state of a step that sends no generation request
Step(m, e, a, op, started, frag) ==
    /\ Update(m, e, a, op, started, frag)
    /\ request' = NoRequest
    /\ UNCHANGED storeVars

\* a handler's event reaches the machine and the Editor re-renders
Send(e, ev, a, op, started, frag) ==
    LET m == Transition(Machine, ev)
    IN  /\ Update(m, RunEffect(e, generatedText, m.generatedText),
                  IF a = "after" THEN AdapterAfter(m) ELSE AdapterGone,
                  op, started, frag)
        /\ request' = IF ev.type \in {"GENERATE", "GENERATE_WITH_ACTION", "MODIFY"}
                      THEN ev ELSE NoRequest
        /\ UNCHANGED storeVars

\* mutant: the tone goes out with every request
HandleGenerate_ToneAlways(action, selected) ==
    IF action # NoAction /\ selected # <<>>
    THEN [type |-> "GENERATE_WITH_ACTION", selectedText |-> selected,
          action |-> action, tone |-> Tone]
    ELSE [type |-> "GENERATE", currentText |-> currentContent, tone |-> Tone]

\* App.handleGenerate: the event it sends to the machine
HandleGenerate(action, selected) ==
    IF action # NoAction /\ selected # <<>>
    THEN [type |-> "GENERATE_WITH_ACTION", selectedText |-> selected,
          action |-> action]
    ELSE [type |-> "GENERATE", currentText |-> currentContent, tone |-> Tone]

\* App.handleModify: the event it sends to the machine
ModifyEvent(action) == [type |-> "MODIFY", action |-> action]

\* The user is slower than the 300 ms debounce: when the user acts, the save
\* armed by the last change of the document has been made, unless a stream
\* is open, whose insertions keep re-arming the timer.
SaveSettled == saveTimer => openStreams # {}

\* the user moves the cursor or selects a range (a transaction that leaves
\* the document alone)
SetSelection(f, t) ==
    /\ SaveSettled /\ ~fault /\ mode = "idle"
    /\ opened < MaxStreams
    /\ sel # [from |-> f, to |-> t]
    /\ Step(Machine, Dispatch(EditorState, doc, [from |-> f, to |-> t], FALSE),
            Adapter, "select", NoSession, <<>>)
    /\ UNCHANGED currentContent

\* canGenerate: the saved content is not empty
CanGenerate == Len(currentContent) >= 1

\* the ControlBar shows "Stop Writing" while isStreaming, else "Continue Writing"
StopButtonShown == mode = "streaming"

\* ControlBar "Continue Writing" -> handleGenerate() -> GENERATE
ControlBarGenerate ==
    /\ SaveSettled /\ ~fault /\ ~StopButtonShown /\ CanGenerate
    /\ mode = "idle" => opened < MaxStreams
    /\ Send(EditorState, HandleGenerate(NoAction, <<>>), "after", "generate",
            [kind |-> "continuation", from |-> NULL, to |-> NULL, text |-> <<>>],
            <<>>)
    /\ UNCHANGED currentContent

\* an AI command of the slash menu -> handleBlockSelect
\*   -> onGenerate(action, selectedText) -> GENERATE_WITH_ACTION, or GENERATE
\* when there is no text to act on.  The user has typed the command at a
\* collapsed cursor and closeSlashMenu(view, true) has deleted it again, so
\* the text is what it was and the document counts as changed; selectedText
\* is the text of the paragraph.
SlashAiCommand ==
    /\ SaveSettled /\ ~fault /\ sel.from = sel.to
    /\ mode = "idle" => opened < MaxStreams
    /\ LET selected == TextOf(doc)
           ev == HandleGenerate(SlashAction, selected)
       IN  Send(Dispatch(EditorState, doc, sel, TRUE), ev, "after", "slashAi",
                [kind |-> "continuation", from |-> NULL, to |-> NULL, text |-> <<>>],
                <<>>)
    /\ UNCHANGED currentContent

\* mutant: the selection toolbar is not hidden while a suggestion is pending
SelectionToolbarShown_NoPendingGate ==
    showSelectionToolbar /\ ~Active(Machine) /\ selectedText # <<>>

\* mutant: the selection toolbar is not hidden while a stream is open
SelectionToolbarShown_NoStreamingGate ==
    showSelectionToolbar /\ mode # "pending" /\ selectedText # <<>>

\* mutant: the selection toolbar ignores isStreaming and hasPendingSuggestion
SelectionToolbarShown_Ungated == showSelectionToolbar /\ selectedText # <<>>

\* the selection toolbar is rendered
SelectionToolbarShown ==
    /\ showSelectionToolbar
    /\ ~Active(Machine)
    /\ mode # "pending"
    /\ selectedText # <<>>

\* a button of the selection toolbar -> handleSelectionAiAction
\*   -> handleGenerate(action, selectedText) -> GENERATE_WITH_ACTION
SelectionAiAction ==
    /\ SaveSettled /\ ~fault /\ SelectionToolbarShown
    /\ opened < MaxStreams
    /\ Send(HandleSelectionAiAction(EditorState),
            HandleGenerate(SelectionAction, selectedText), "after", "selectionAi",
            [kind |-> "selection", from |-> sel.from, to |-> sel.to,
             text |-> TextOf(SubSeq(doc, sel.from + 1, sel.to))],
            <<>>)
    /\ UNCHANGED currentContent

\* the user goes for a button of the selection toolbar where it should not
\* be offered (nothing is selected, the selection is too short, or the
\* machine is not idle): handleSelectionAiAction runs only if the toolbar
\* is there
SelectionAttempt ==
    /\ SaveSettled /\ ~fault
    /\ mode # "idle" \/ ~Qualifies(sel)
    /\ IF SelectionToolbarShown
       THEN Send(HandleSelectionAiAction(EditorState),
                 HandleGenerate(SelectionAction, selectedText), "after",
                 "refused", NoSession, <<>>)
       ELSE Step(Machine, EditorState, Adapter, "refused", NoSession, <<>>)
    /\ UNCHANGED currentContent

\* the transport delivers a chunk to the generator, which cleans it
TransportChunk(chunkText) ==
    /\ ~fault /\ openStreams # {}
    /\ queue = <<>> /\ inflight = <<>>
    /\ chunksSeen < MaxChunks
    /\ chunkText # <<>>
    /\ Step(Machine, EditorState,
            [Adapter EXCEPT !.queue = CleanChunk(chunkText), !.chunksSeen = @ + 1],
            "chunk", NoSession, <<>>)
    /\ UNCHANGED currentContent

\* mutant: the characters of a chunk are yielded from the end
YieldOf_LastFirst(q) == [ch |-> q[Len(q)], rest |-> SubSeq(q, 1, Len(q) - 1)]

\* for (const char of cleaned) yield char
YieldOf(q) == [ch |-> Head(q), rest |-> Tail(q)]

\* the generator yields the next character of the cleaned chunk
AdapterYield ==
    /\ ~fault /\ queue # <<>> /\ inflight = <<>>
    /\ Step(Machine, EditorState,
            [Adapter EXCEPT !.queue = YieldOf(queue).rest,
                            !.inflight = <<[sid |-> opened, ch |-> YieldOf(queue).ch]>>],
            "yield", NoSession, <<>>)
    /\ UNCHANGED currentContent

\* the yielded fragment reaches the machine; the Editor re-renders
FragmentArrives ==
    /\ ~fault /\ inflight # <<>>
    /\ LET ev == [type |-> "FRAGMENT", sid |-> inflight[1].sid, ch |-> inflight[1].ch]
           m  == Transition(Machine, ev)
           applied == m.generatedText # generatedText
       IN  Step(m, RunEffect(EditorState, generatedText, m.generatedText),
                [Adapter EXCEPT !.inflight = <<>>],
                IF applied THEN "fragment" ELSE "dropped", NoSession,
                IF applied THEN <<ev.ch>> ELSE <<>>)
    /\ UNCHANGED currentContent

\* the transport's stream ends: the generator returns
StreamComplete ==
    /\ ~fault /\ openStreams # {}
    /\ queue = <<>> /\ inflight = <<>>
    /\ Send(EditorState, [type |-> "COMPLETE", sid |-> opened], "gone", "complete",
            NoSession, <<>>)
    /\ UNCHANGED currentContent

\* the transport throws while the generator awaits it: the generator rethrows
StreamFail ==
    /\ ~fault /\ openStreams # {}
    /\ queue = <<>> /\ inflight = <<>>
    /\ Send(EditorState, [type |-> "FAIL", sid |-> opened], "gone", "fail",
            NoSession, <<>>)
    /\ UNCHANGED currentContent

\* mutant: handleStop reports the stream as completed
StopEvent_AsComplete == [type |-> "COMPLETE", sid |-> opened]

\* mutant: handleStop sends an intent the machine ignores while streaming
StopEvent_Ignored == [type |-> "ACCEPT"]

\* handleStop
StopEvent == [type |-> "STOP"]

\* ControlBar "Stop Writing" -> handleStop -> STOP
Stop ==
    /\ ~fault /\ StopButtonShown
    /\ Send(EditorState, StopEvent, "after", "stop", NoSession, <<>>)
    /\ UNCHANGED currentContent

\* mutant: the hover toolbar is shown wherever there is an anchor
ToolbarShown_AnyMode == aiTextStartPos # NULL

\* the hover toolbar is shown when hasPendingSuggestion and the mouse has
\* moved over the editor with aiTextStartPosRef set (handleMouseMove)
ToolbarShown == mode = "pending" /\ aiTextStartPos # NULL

Accept ==
    /\ SaveSettled /\ ~fault /\ ToolbarShown
    /\ Send(HandleAccept(EditorState), [type |-> "ACCEPT"], "after", "accept",
            NoSession, <<>>)
    /\ UNCHANGED currentContent

Reject ==
    /\ SaveSettled /\ ~fault /\ ToolbarShown
    /\ Send(HandleReject(EditorState), [type |-> "REJECT"], "after", "reject",
            NoSession, <<>>)
    /\ UNCHANGED currentContent

Modify ==
    /\ SaveSettled /\ ~fault /\ ToolbarShown
    /\ opened < MaxStreams
    /\ Send(HandleModify(EditorState), ModifyEvent(ModifyAction), "after", "modify",
            NoSession, <<>>)
    /\ UNCHANGED currentContent

\* the handler behind a button of the hover toolbar
HoverHandler(intent, e) ==
    CASE intent = "ACCEPT" -> HandleAccept(e)
      [] intent = "REJECT" -> HandleReject(e)
      [] intent = "MODIFY" -> HandleModify(e)

\* outside pending the user moves the mouse over the text from the anchor on
\* and goes for a button of the hover toolbar: the handler runs, and sends
\* its intent, only if the toolbar is there
HoverOutsidePending(intent) ==
    /\ SaveSettled /\ ~fault /\ mode # "pending" /\ aiTextStartPos # NULL
    /\ IF ToolbarShown
       THEN Send(HoverHandler(intent, EditorState),
                 IF intent = "MODIFY" THEN ModifyEvent(ModifyAction)
                 ELSE [type |-> intent],
                 "after", "invalid", NoSession, <<>>)
       ELSE Step(Machine, EditorState, Adapter, "invalid", NoSession, <<>>)
    /\ UNCHANGED currentContent

\* the 300 ms debounce timer fires: updateDocument(id, {content: text}).
\* Every insertion re-arms the timer, and the characters of a chunk are 5 ms
\* apart, so the timer cannot expire while a chunk is being paced out.
SaveTimerFires ==
    /\ ~fault /\ saveTimer
    /\ queue = <<>> /\ inflight = <<>>
    /\ currentContent' = TextOf(doc)
    /\ Step(Machine, [EditorState EXCEPT !.saveTimer = FALSE], Adapter, "save",
            NoSession, <<>>)

Next ==
    \/ \E s \in UserSelections(doc) : SetSelection(s.from, s.to)
    \/ ControlBarGenerate
    \/ SlashAiCommand
    \/ SelectionAiAction
    \/ SelectionAttempt
    \/ \E c \in RawChunks : TransportChunk(c)
    \/ AdapterYield
    \/ FragmentArrives
    \/ StreamComplete
    \/ StreamFail
    \/ Stop
    \/ Accept
    \/ Reject
    \/ Modify
    \/ \E intent \in {"ACCEPT", "REJECT", "MODIFY"} : HoverOutsidePending(intent)
    \/ SaveTimerFires

Spec == Init /\ [][Next]_vars

\* The same program when nothing is assumed of the transport (a stream may
\* stay silent for ever) and the user keeps acting: Stop, while it is
\* offered, and Accept, while the hover toolbar can be had, are eventually
\* pressed.
SpecIntents == Init /\ [][Next]_vars /\ WF_vars(Stop) /\ WF_vars(Accept)

\* the Editor has rendered the apiText the machine holds
Rendered == lastInsertedLength = Len(generatedText)

\* a fragment reaches the machine and the Editor does not render before the
\* next update: the effect will see this character together with later ones
FragmentBatched ==
    /\ ~fault /\ inflight # <<>>
    /\ LET ev == [type |-> "FRAGMENT", sid |-> inflight[1].sid, ch |-> inflight[1].ch]
           m  == Transition(Machine, ev)
       IN  /\ m.generatedText # generatedText
           /\ Step(m, EditorState, [Adapter EXCEPT !.inflight = <<>>],
                   "batched", NoSession, <<ev.ch>>)
    /\ UNCHANGED currentContent

\* the Editor renders with the apiText gathered so far and the effect runs
Render ==
    /\ ~fault /\ ~Rendered
    /\ Step(Machine, StreamingEffect(EditorState, generatedText), Adapter,
            "render", NoSession, <<>>)
    /\ UNCHANGED currentContent

\* While an update waits to be rendered only the stream goes on; everything
\* else happens on an Editor that is up to date.
NextCoalesced ==
    \/ Rendered /\ Next
    \/ ~Rendered /\ (\E c \in RawChunks : TransportChunk(c))
    \/ ~Rendered /\ AdapterYield
    \/ ~Rendered /\ FragmentArrives
    \/ FragmentBatched
    \/ Render

\* The same program when updates of apiText may be coalesced: the Editor
\* sees several characters in one update.
SpecCoalesced == Init /\ [][NextCoalesced]_vars

(***************************************************************************)
(* Claims.                                                                 *)
(***************************************************************************)

\* C1 (single-flight): at most one outbound stream is open, a stream is open
\* exactly while the machine is streaming or modifying, and the session
\* state of the Editor is initialised for a new session (a stream opened by
\* generate or generateOnSelection, a selection captured) only from idle, so
\* that no second session's state exists beside the one the machine holds.
C1_SingleFlight ==
    /\ [](Cardinality(openStreams) <= 1)
    /\ [](openStreams # {} <=> mode \in {"streaming", "modifying"})
    /\ [][lastOp' \in {"generate", "slashAi", "selectionAi"} /\
          (opened' # opened \/ aiTextStartPos' # aiTextStartPos
             \/ isReplacingSelection' # isReplacingSelection \/ doc' # doc)
          => mode = "idle" /\ openStreams = {}]_vars

\* a second generate intent arrives while a session is held and is ignored
C1_Witness ==
    /\ lastOp = "generate" /\ mode = "modifying"
    /\ Cardinality(openStreams) = 1 /\ opened = MaxStreams

\* C2 (reject restores selection): when a session started by
\* generateOnSelection on the text T at [from, to) is rejected in
\* pendingDecision, after any number of fragments, the document text at
\* [from, to) is T again.
C2_RejectRestoresSelection ==
    (lastOp = "reject" /\ sess.kind = "selection")
        => /\ sess.to <= Len(doc)
           /\ TextOf(SubSeq(doc, sess.from + 1, sess.to)) = sess.text

\* a selection session is rejected after two fragments were appended
C2_Witness ==
    /\ lastOp = "reject" /\ sess.kind = "selection" /\ insertedCount >= 2
    /\ sess.text = <<"v", "w", "x", "y">>

\* C3 (frame of reject and modify): rejectSession and modifySession delete
\* exactly [startPosition, startPosition + emittedLength): the text before
\* the range and the text after it, marks included, are what they were.
C3_DeleteExactlyRange ==
    [][lastOp' \in {"reject", "modify"} =>
          LET a == aiTextStartPos
              b == aiTextStartPos + lastInsertedLength
              after == Len(doc) - b
          IN  /\ Len(doc') >= a + after
              /\ SubSeq(doc', 1, a) = SubSeq(doc, 1, a)
              /\ SubSeq(doc', Len(doc') - after + 1, Len(doc'))
                     = SubSeq(doc, b + 1, Len(doc))]_vars

\* C4 (frame of accept): acceptSession removes the generated mark from
\* exactly [startPosition, startPosition + emittedLength): the plain text is
\* unchanged and so is every character, mark included, outside the range.
C4_AcceptExactlyRange ==
    [][lastOp' = "accept" =>
          LET a == aiTextStartPos
              b == aiTextStartPos + lastInsertedLength
          IN  /\ TextOf(doc') = TextOf(doc)
              /\ \A i \in 1..Len(doc) : (i <= a \/ i > b) => doc'[i] = doc[i]]_vars

C7_CancellationOrdering ==
    [][(inflight # <<>> /\ inflight' = <<>> /\ inflight[1].sid \in stopped) =>
          /\ lastOp' = "dropped"
          /\ generatedText' = generatedText
          /\ doc' = doc
          /\ lastInsertedLength' = lastInsertedLength
          /\ aiTextStartPos' = aiTextStartPos]_vars

\* a fragment that was in flight when stop was invoked has arrived and was dropped
C7_Witness ==
    /\ lastOp = "dropped" /\ mode \in {"pending", "idle"} /\ opened >= 1

\* C8 (stream-fail safety): when the stream fails after fragments were
\* appended, the machine is idle with an error surfaced and the document is
\* what it was: every inserted character is still there and still marked.
C8_StreamFailSafety ==
    [][lastOp' = "fail" =>
          /\ mode' = "idle" /\ error'
          /\ doc' = doc
          /\ \A i \in 1..lastInsertedLength : doc'[aiTextStartPos + i].em]_vars

\* a stream has failed after at least one fragment was appended
C8_Witness ==
    /\ lastOp = "fail" /\ insertedCount >= 1 /\ mode = "idle" /\ error
    /\ \E i \in 1..Len(doc) : doc[i].em

\* C9 (modify preserves anchor): modify on a pending session with
\* startPosition = p leaves startPosition = p and emittedLength = 0, and the
\* first fragment of the new stream is inserted at offset p.
C9_ModifyPreservesAnchor ==
    /\ [][lastOp' = "modify" =>
            /\ aiTextStartPos # NULL
            /\ aiTextStartPos' = aiTextStartPos
            /\ lastInsertedLength' = 0
            /\ mode' = "modifying"]_vars
    /\ [][(lastOp' = "fragment" /\ mode = "modifying" /\ generatedText = <<>>) =>
            /\ insertedAt' = anchorAtModify
            /\ aiTextStartPos' = anchorAtModify]_vars

\* the first fragment after a modify has been inserted at the anchor, which
\* is not where the previous suggestion ended
C9_Witness ==
    /\ lastOp = "fragment" /\ mode = "modifying" /\ Len(generatedText) = 1
    /\ insertedAt = anchorAtModify /\ anchorAtModify = 1

C11_EmittedLengthMonotone ==
    /\ [][lastInsertedLength' < lastInsertedLength =>
            lastOp' \in {"accept", "reject", "modify", "fail"}]_vars
    /\ [][lastOp' \in {"accept", "reject", "modify"} => lastInsertedLength' = 0]_vars
    /\ [][(lastOp' = "fragment" /\ generatedText = <<>>) => lastInsertedLength = 0]_vars

\* a suggestion of two characters has been accepted
C11_Witness ==
    /\ lastOp = "accept" /\ insertedCount >= 2 /\ lastInsertedLength = 0

\* C12 (idle retains no session data): whenever the machine is idle,
\* startPosition is null, emittedLength is 0, replacesSelection is false and
\* originalText is empty, whichever way idle was reached.
C12_IdleNoSessionData ==
    mode = "idle" =>
        /\ aiTextStartPos = NULL
        /\ lastInsertedLength = 0
        /\ ~isReplacingSelection
        /\ originalText = <<>>

\* C13 (invalid intents are no-ops): accept, reject and modify take effect
\* only in pending; going for them in any other mode changes neither the
\* mode, nor the session state, nor the document.
C13_InvalidIntentsNoOp ==
    /\ [][lastOp' \in {"accept", "reject", "modify"} => mode = "pending"]_vars
    /\ [][lastOp' = "invalid" =>
            /\ mode # "pending"
            /\ UNCHANGED <<mode, generatedText, error, openStreams, opened, doc,
                           lastInsertedLength, aiTextStartPos,
                           isReplacingSelection, originalText, selectionRange>>]_vars

\* an intent of the hover toolbar was gone for while streaming, with
\* marked text in the document
C13_Witness ==
    /\ lastOp = "invalid" /\ mode = "streaming" /\ lastInsertedLength >= 1

\* C14 (generate while not idle is a no-op): a generate or
\* generateOnSelection intent issued in streaming, pending or modifying
\* opens no stream, changes no session state and does not change the document.
C14_GenerateNotIdleNoOp ==
    [][(lastOp' \in {"generate", "slashAi", "selectionAi"} /\ mode # "idle") =>
          UNCHANGED <<mode, generatedText, error, openStreams, opened, doc,
                      lastInsertedLength, aiTextStartPos, isReplacingSelection,
                      originalText, selectionRange>>]_vars

\* an AI command of the slash menu was picked while a stream was open and
\* had delivered text
C14_Witness ==
    /\ lastOp = "slashAi" /\ mode = "streaming" /\ lastInsertedLength >= 1
    /\ opened = 1

\* C15 (stop): stop issued while streaming closes the stream and moves the
\* machine to pending if at least one character has been emitted for the
\* session, and to idle otherwise.
C15_StopTransition ==
    [][(lastOp' = "stop" /\ mode = "streaming") =>
          /\ openStreams' = {}
          /\ mode' = IF insertedCount >= 1 THEN "pending" ELSE "idle"
          /\ doc' = doc]_vars

\* stop was pressed after one character had been inserted
C15_Witness ==
    /\ lastOp = "stop" /\ mode = "pending" /\ insertedCount = 1
    /\ openStreams = {}

\* C16 (recovery path): from every mode the machine gets back to idle by
\* the intents the user has, whatever the stream does, including a stream
\* that never completes while modifying.
C16_RecoveryPath == (mode # "idle") ~> (mode = "idle")

\* C17 (EmptySelection): an AI action on text that is requested with nothing
\* selected, or with a selection of no more than MinSelection positions, is
\* refused before anything happens: the document, the session refs and the
\* streams are what they were.  The requests are the buttons of the
\* selection toolbar and the AI commands of the slash menu that carry text.
C17_EmptySelectionRejected ==
    [][(/\ \/ lastOp' \in {"selectionAi", "refused"}
           \/ lastOp' = "slashAi" /\ TextOf(doc) # <<>>
        /\ mode = "idle"
        /\ sel.to - sel.from <= MinSelection)
       => UNCHANGED <<mode, generatedText, error, openStreams, opened,
                      doc, lastInsertedLength, aiTextStartPos,
                      isReplacingSelection, originalText,
                      selectionRange>>]_vars

\* C18 (selection capture is active only in idle): outside idle the
\* selection toolbar is not offered, a selection action never runs, and an
\* attempt at one leaves the document, the anchor, originalText and the rest
\* of the session alone.
C18_SelectionCaptureIdleOnly ==
    /\ [](mode # "idle" => ~SelectionToolbarShown)
    /\ [][lastOp' = "selectionAi" => mode = "idle"]_vars
    /\ [][(lastOp' \in {"selectionAi", "refused"} /\ mode # "idle")
           => UNCHANGED <<mode, generatedText, openStreams, opened, doc,
                          lastInsertedLength, aiTextStartPos,
                          isReplacingSelection, originalText,
                          selectionRange>>]_vars

C18_Witness ==
    /\ lastOp = "refused" /\ mode = "streaming"
    /\ sel.to - sel.from > MinSelection
    /\ showSelectionToolbar /\ selectedText # <<>>
    /\ aiTextStartPos # NULL /\ lastInsertedLength >= 1

\* C19 (deletion and anchor are one step): the selection action deletes
\* exactly the selection, as one edit, and the same step leaves the anchor
\* at the deletion point with nothing emitted; the anchor stays there while
\* the session runs, and the first fragment of the session is inserted at
\* it.
C19_DeleteThenAnchorAtomic ==
    /\ [][lastOp' = "selectionAi"
           => /\ doc' = DeleteRange(doc, sel.from, sel.to)
              /\ aiTextStartPos' = sel.from
              /\ sel' = [from |-> sel.from, to |-> sel.from]
              /\ lastInsertedLength' = 0 /\ insertedCount' = 0
              /\ mode' = "streaming"]_vars
    /\ [][(sess.kind = "selection" /\ mode = "streaming" /\ doc' # doc)
           => /\ lastOp' = "fragment"
              /\ aiTextStartPos' = aiTextStartPos
              /\ insertedCount = 0 => insertedAt' = sess.from]_vars
    /\ []((sess.kind = "selection" /\ mode = "streaming")
            => aiTextStartPos = sess.from)

C19_Witness ==
    /\ lastOp = "fragment" /\ sess.kind = "selection" /\ mode = "streaming"
    /\ insertedAt = sess.from /\ aiTextStartPos = sess.from
    /\ insertedCount = 1 /\ Len(doc) = Len(InitText) - (sess.to - sess.from) + 1

\* C20 (originalText of a replacing session): whenever replacesSelection is
\* true, originalText is not empty; the selection action takes it from the
\* text captured while the selection was still in the document, which is the
\* text of the range it then deletes; and it is kept as it is for as long
\* as replacesSelection stays true.
C20_OriginalTextCaptured ==
    /\ [](isReplacingSelection => originalText # <<>>)
    /\ [][lastOp' = "selectionAi"
           => /\ isReplacingSelection'
              /\ originalText' = selectedText
              /\ originalText' = TextOf(SubSeq(doc, sel.from + 1, sel.to))
              /\ selectionRange' = sel
              /\ Len(doc') = Len(doc) - Len(originalText')]_vars
    /\ [][(isReplacingSelection /\ isReplacingSelection'
            /\ lastOp' # "selectionAi")
           => originalText' = originalText /\ selectionRange' = selectionRange]_vars
    /\ [][(~isReplacingSelection /\ isReplacingSelection')
           => lastOp' = "selectionAi"]_vars

C20_Witness ==
    /\ isReplacingSelection /\ lastOp = "fragment" /\ mode = "streaming"
    /\ Len(originalText) = 4 /\ selectionRange = [from |-> 1, to |-> 5]
    /\ TextOf(doc) # TextOf(Plain(InitText))

\* C21 (whitespace-normalized output): the fragments the adapter has
\* yielded for a stream, put together in order, hold no newline and no run
\* of two or more whitespace characters.
C21_OutputNormalized ==
    LET yielded == IF inflight # <<>> /\ inflight[1].sid \in openStreams
                   THEN Append(delivered, inflight[1].ch)
                   ELSE delivered
    IN  /\ \A i \in 1..Len(yielded) : ~IsNewline(yielded[i])
        /\ \A i \in 1..(Len(yielded) - 1) :
               ~(IsSpace(yielded[i]) /\ IsSpace(yielded[i + 1]))

\* C22 (pacing is cosmetic): whether the text reaches the Editor one
\* character at a time or several characters in one update, once the Editor
\* has rendered all of it the document holds the generated text, whole, at
\* [startPosition, startPosition + emittedLength).
C22_PacingCosmetic ==
    (/\ mode # "idle" /\ Rendered
     /\ aiTextStartPos # NULL /\ generatedText # <<>>)
    => /\ aiTextStartPos + lastInsertedLength <= Len(doc)
       /\ TextOf(SubSeq(doc, aiTextStartPos + 1,
                        aiTextStartPos + lastInsertedLength)) = generatedText

\* C23 (idempotent accept): accepting a session that has emitted nothing
\* leaves the document as it is, text and marks, and clears the session
\* state.
C23_IdempotentAccept ==
    [][(lastOp' = "accept" /\ lastInsertedLength = 0)
       => /\ doc' = doc
          /\ aiTextStartPos' = NULL /\ ~isReplacingSelection'
          /\ originalText' = <<>> /\ selectionRange' = NoRange
          /\ mode' = "idle"]_vars

\* C24 (a session without fragments): while the stream of a session has
\* yielded no fragment the anchor is not established, and reject and modify
\* on such a session edit nothing in the document.
C24_ZeroFragmentsNoEdit ==
    /\ []((/\ mode \in {"streaming", "pending"}
           /\ anchorAtModify = NULL /\ insertedCount = 0)
          => aiTextStartPos = NULL)
    /\ [][(/\ lastOp' \in {"reject", "modify"}
           /\ anchorAtModify = NULL /\ insertedCount = 0)
          => doc' = doc]_vars

\* C25 (non-empty source text): every generate and generateOnSelection
\* request that is sent, from the ControlBar, the selection toolbar or the
\* slash menu, carries a source text that is not empty.
C25_NonEmptySource ==
    /\ request.type = "GENERATE" => request.currentText # <<>>
    /\ request.type = "GENERATE_WITH_ACTION" => request.selectedText # <<>>

\* C26 (tone and action are mutually exclusive): every generation request
\* carries a tone or an action, never both; the tone goes with GENERATE
\* (continuation) only, the action with GENERATE_WITH_ACTION and MODIFY only.
C26_ToneActionExclusive ==
    request # NoRequest
    => LET hasTone == "tone" \in DOMAIN request
           hasAction == "action" \in DOMAIN request
       IN  /\ hasTone # hasAction
           /\ hasTone <=> request.type = "GENERATE"
           /\ hasAction <=> request.type \in {"GENERATE_WITH_ACTION", "MODIFY"}
           /\ hasAction => request.action # NoAction

C26_Witness ==
    /\ lastOp = "selectionAi" /\ mode = "streaming"
    /\ request.type = "GENERATE_WITH_ACTION"
    /\ request.action = SelectionAction /\ Len(request.selectedText) = 4

C28_SelectionNotLost ==
    [][(/\ lastOp' \in {"stop", "fail"} /\ mode' = "idle"
        /\ sess.kind = "selection"
        /\ anchorAtModify = NULL /\ insertedCount = 0)
       => /\ sess.to <= Len(doc')
          /\ TextOf(SubSeq(doc', sess.from + 1, sess.to)) = sess.text]_vars

\* C29 (no inherited anchor): the first fragment of a session started by
\* generate is inserted at the cursor, wherever an earlier session that
\* ended without accept or reject had its anchor.
C29_NoInheritedAnchor ==
    [][(/\ lastOp' = "fragment" /\ mode = "streaming"
        /\ sess.kind = "continuation" /\ insertedCount = 0)
       => insertedAt' = sel.from /\ aiTextStartPos' = sel.from]_vars

\* C30 (insertions stay inside the document): no insertion is issued at an
\* offset outside the text, and while a session is active
\* 0 <= startPosition and startPosition + emittedLength is at most the
\* length of the text, whatever the increments were.
C30_InsertionInRange ==
    /\ ~fault
    /\ (mode \in {"streaming", "modifying"} /\ aiTextStartPos # NULL)
       => /\ 0 <= aiTextStartPos
          /\ aiTextStartPos + lastInsertedLength <= Len(doc)

(***************************************************************************)
(* The document list (DocumentProvider, Sidebar), the debounced save of    *)
(* App and the Editor that App mounts anew for each active document.       *)
(* generateId is modelled by a counter.  A transport chunk is one          *)
(* character here, so that it is yielded and reaches the machine in one    *)
(* step.  The user types only while the machine is idle, and nothing is    *)
(* assumed of the time between two actions of the user.                    *)
(***************************************************************************)
MaxDocs == 2        \* documents ever created
MaxText == 2        \* characters a document may grow to

StoredText == <<"u">>
TypedText == <<"t">>
ChunkText == <<"a">>

\* what loadDocuments and loadActiveDocId may find in localStorage: nothing,
\* a document and its id, a document and no usable id
LoadedStores ==
    { [documents |-> <<>>, activeDocId |-> NULL, nextId |-> 1],
      [documents |-> <<[id |-> 1, content |-> StoredText]>>, activeDocId |-> 1,
       nextId |-> 2],
      [documents |-> <<[id |-> 1, content |-> StoredText]>>, activeDocId |-> NULL,
       nextId |-> 2] }

Store == [documents |-> documents, activeDocId |-> activeDocId, nextId |-> nextId]

DocIds(docs) == {docs[i].id : i \in 1..Len(docs)}

\* documents.find(d => d.id === activeDocId) || null
ActiveDocument(s) ==
    LET hits == {i \in 1..Len(s.documents) : s.documents[i].id = s.activeDocId}
    IN  IF hits = {} THEN NoDocument
        ELSE s.documents[CHOOSE i \in hits : \A j \in hits : i <= j]

\* currentContent = activeDocument?.content || ""
ContentOf(s) == ActiveDocument(s).content

\* createDocument: a new empty document heads the list and becomes active
CreateDocument(s) ==
    [documents |-> <<[id |-> s.nextId, content |-> <<>>]>> \o s.documents,
     activeDocId |-> s.nextId, nextId |-> s.nextId + 1]

\* updateDocument(id, {content: text})
UpdateDocument(s, id, text) ==
    [s EXCEPT !.documents =
        [i \in 1..Len(s.documents) |->
            IF s.documents[i].id = id
            THEN [s.documents[i] EXCEPT !.content = text]
            ELSE s.documents[i]]]

\* mutant: deleteDocument leaves activeDocId alone
DeleteDocument_KeepsActive(s, id) ==
    [s EXCEPT !.documents = SelectSeq(s.documents, LAMBDA d : d.id # id)]

\* deleteDocument: the document leaves the list; when it was the active one
\* the first of the remaining documents becomes active
DeleteDocument(s, id) ==
    LET newDocs == SelectSeq(s.documents, LAMBDA d : d.id # id)
    IN  [s EXCEPT !.documents = newDocs,
                  !.activeDocId = IF s.activeDocId = id
                                  THEN (IF newDocs # <<>> THEN newDocs[1].id ELSE NULL)
                                  ELSE s.activeDocId]

\* setActiveDocument
SetActiveDocument(s, id) == [s EXCEPT !.activeDocId = id]

\* the effect DocumentProvider runs once after loading
InitEffect(s) ==
    IF s.documents = <<>> THEN CreateDocument(s)
    ELSE IF s.activeDocId = NULL \/ s.activeDocId \notin DocIds(s.documents)
    THEN [s EXCEPT !.activeDocId = s.documents[1].id]
    ELSE s

\* mutant: the sidebar offers delete for the last document too
CanDelete_Always(docs) == TRUE

\* Sidebar: the delete button is rendered, and handleDeleteDocument goes on,
\* only when documents.length > 1
CanDelete(docs) == Len(docs) > 1

\* a newly created EditorView on initialContent: one paragraph of plain
\* text, the selection at its start, every ref and state at its initial value
FreshEditor(content) ==
    [doc |-> Plain(content), sel |-> [from |-> 0, to |-> 0],
     selectedText |-> <<>>, showSelectionToolbar |-> FALSE,
     last |-> 0, start |-> NULL, replacing |-> FALSE, original |-> <<>>,
     range |-> NoRange, saveTimer |-> FALSE, fault |-> FALSE,
     insertedAt |-> NULL, insertedCount |-> 0]

\* the Editor after its first render: the streaming effect has run on the
\* apiText the machine holds
MountedEditor(content, apiText) == StreamingEffect(FreshEditor(content), apiText)

\* App.handleEditorUpdate(text): drop the armed timer and arm one that will
\* save text to the document that is active now
HandleEditorUpdate(p, s, text) ==
    IF ActiveDocument(s) = NoDocument THEN p
    ELSE [id |-> ActiveDocument(s).id, text |-> text]

\* dispatchTransaction of the Editor mounted on the active document of s:
\* onUpdate(textContent) when the document has changed from before to after
OnUpdate(p, s, before, after) ==
    IF after # before THEN HandleEditorUpdate(p, s, TextOf(after)) ELSE p

\* history: the Editor of document id has reported text
Reported(id, text) ==
    <<[id |-> id, text |-> text]>> \o SelectSeq(edited, LAMBDA x : x.id # id)

\* the machine useMachine creates when EditorApp mounts
NewMachine ==
    [mode |-> "idle", generatedText |-> <<>>, error |-> FALSE,
     openStreams |-> {}, opened |-> opened]

InitDocuments ==
    \E loaded \in LoadedStores :
        LET s == InitEffect(loaded)
        IN  /\ documents = s.documents /\ activeDocId = s.activeDocId
            /\ nextId = s.nextId
            /\ pendingSave = NoSave /\ showEditor = TRUE /\ edited = <<>>
            /\ currentContent = ContentOf(s) /\ saveTimer = FALSE
            /\ doc = Plain(ContentOf(s)) /\ sel = [from |-> 0, to |-> 0]
            /\ mode = "idle" /\ generatedText = <<>> /\ error = FALSE
            /\ openStreams = {} /\ opened = 0
            /\ chunksSeen = 0 /\ queue = <<>> /\ inflight = <<>>
            /\ selectedText = <<>> /\ showSelectionToolbar = FALSE
            /\ lastInsertedLength = 0 /\ aiTextStartPos = NULL
            /\ isReplacingSelection = FALSE /\ originalText = <<>>
            /\ selectionRange = NoRange /\ fault = FALSE
            /\ lastOp = "init" /\ insertedAt = NULL /\ insertedCount = 0
            /\ delivered = <<>> /\ sess = NoSession /\ stopped = {}
            /\ anchorAtModify = NULL /\ request = NoRequest

\* the next state of a step under SpecDocuments: machine m, Editor e, adapter
\* a, document list s, armed save p, history hist.  Of the history of the
\* session only lastOp is followed.
StoreUpdate(m, e, a, s, p, hist, op, started, frag) ==
    /\ mode' = m.mode /\ generatedText' = m.generatedText /\ error' = m.error
    /\ openStreams' = m.openStreams /\ opened' = m.opened
    /\ doc' = e.doc /\ sel' = e.sel /\ selectedText' = e.selectedText
    /\ showSelectionToolbar' = e.showSelectionToolbar
    /\ lastInsertedLength' = e.last /\ aiTextStartPos' = e.start
    /\ isReplacingSelection' = e.replacing /\ originalText' = e.original
    /\ selectionRange' = e.range /\ saveTimer' = (p # NoSave)
    /\ fault' = e.fault
    /\ queue' = a.queue /\ inflight' = a.inflight /\ chunksSeen' = a.chunksSeen
    /\ lastOp' = op
    /\ UNCHANGED <<insertedAt, insertedCount, delivered, sess, stopped,
                   anchorAtModify>>
    /\ documents' = s.documents /\ activeDocId' = s.activeDocId
    /\ nextId' = s.nextId
    /\ pendingSave' = p /\ edited' = hist
    /\ currentContent' = ContentOf(s)

\* a step that leaves the document list alone and runs on the mounted
\* Editor, which reports its document when the step has changed it
EditorStep(m, e, a, op, started, frag) ==
    /\ StoreUpdate(m, e, a, Store, OnUpdate(pendingSave, Store, doc, e.doc),
                   IF e.doc # doc /\ activeDocId # NULL
                   THEN Reported(activeDocId, TextOf(e.doc)) ELSE edited,
                   op, started, frag)
    /\ showEditor' = showEditor

\* a step of the sidebar that makes s the document list: when the active
\* document is another one now, the Editor (key = activeDocument.id) is
\* mounted anew on the content of that document
ListStep(s, op) ==
    LET e == IF s.activeDocId # activeDocId
             THEN MountedEditor(ContentOf(s), generatedText)
             ELSE EditorState
        before == IF s.activeDocId # activeDocId THEN Plain(ContentOf(s)) ELSE doc
    IN  /\ Len(e.doc) <= MaxText
        /\ StoreUpdate(Machine, e, Adapter, s,
                       OnUpdate(pendingSave, s, before, e.doc),
                       IF e.doc # before /\ s.activeDocId # NULL
                       THEN Reported(s.activeDocId, TextOf(e.doc)) ELSE edited,
                       op, NoSession, <<>>)
        /\ request' = NoRequest /\ showEditor' = showEditor

\* Sidebar "New document" -> handleNewDocument -> createDocument()
HandleNewDocument ==
    /\ showEditor /\ ~fault /\ nextId <= MaxDocs
    /\ ListStep(CreateDocument(Store), "create")

\* a document of the list is clicked -> handleSelectDocument -> setActiveDocument
HandleSelectDocument(id) ==
    /\ showEditor /\ ~fault /\ id \in DocIds(documents) /\ id # activeDocId
    /\ ListStep(SetActiveDocument(Store, id), "select")

\* the delete button of a document -> handleDeleteDocument -> deleteDocument
HandleDeleteDocument(id) ==
    /\ showEditor /\ ~fault /\ id \in DocIds(documents) /\ CanDelete(documents)
    /\ ListStep(DeleteDocument(Store, id), "delete")

\* the user types a character at the cursor
TypeText ==
    /\ showEditor /\ ~fault /\ mode = "idle" /\ Len(doc) < MaxText
    /\ LET at == sel.from
           e  == Dispatch(EditorState, InsertAt(doc, at, Plain(TypedText)),
                          [from |-> at + Len(TypedText), to |-> at + Len(TypedText)],
                          TRUE)
       IN  EditorStep(Machine, e, Adapter, "type", NoSession, <<>>)
    /\ request' = NoRequest

\* mutant: the timer saves to the document that is active when it fires
SaveTarget_ActiveAtFire(p, s) == s.activeDocId

\* activeDocument.id in the timer's callback: the callback was created by the
\* handleEditorUpdate that armed it and holds that render's activeDocument
SaveTarget(p, s) == p.id

\* the 300 ms debounce timer fires: updateDocument(activeDocument.id,
\* {content: text}) with the document and the text of the update that armed it
DebouncedSave ==
    /\ showEditor /\ ~fault /\ pendingSave # NoSave
    /\ StoreUpdate(Machine, EditorState, Adapter,
                   UpdateDocument(Store, SaveTarget(pendingSave, Store),
                                  pendingSave.text),
                   NoSave, edited, "save", NoSession, <<>>)
    /\ request' = NoRequest /\ showEditor' = showEditor

\* the logo of the sidebar -> onExit: EditorApp unmounts, its cleanup clears
\* the armed timer; the machine and the Editor go with it
ExitEditor ==
    /\ showEditor /\ ~fault
    /\ StoreUpdate(NewMachine, FreshEditor(<<>>), AdapterGone, Store, NoSave, edited,
                   "exit", NoSession, <<>>)
    /\ request' = NoRequest /\ showEditor' = FALSE

\* the landing page -> EditorApp mounts: a new machine, the Editor on the
\* content of the active document
EnterEditor ==
    /\ ~showEditor
    /\ StoreUpdate(NewMachine, MountedEditor(ContentOf(Store), <<>>), Adapter,
                   Store, NoSave, edited, "enter", NoSession, <<>>)
    /\ request' = NoRequest /\ showEditor' = TRUE

\* ControlBar "Continue Writing" -> handleGenerate() -> GENERATE, whenever
\* the user presses it
ContinueWriting ==
    /\ showEditor /\ ~fault /\ ~StopButtonShown /\ CanGenerate
    /\ mode = "idle" => opened < MaxStreams
    /\ LET ev == HandleGenerate(NoAction, <<>>)
           m  == Transition(Machine, ev)
       IN  /\ EditorStep(m, RunEffect(EditorState, generatedText, m.generatedText),
                         AdapterAfter(m), "generate",
                         [kind |-> "continuation", from |-> NULL, to |-> NULL,
                          text |-> <<>>], <<>>)
           /\ request' = ev

\* the transport delivers a chunk of one character; the generator yields it
\* and it reaches the machine; the Editor re-renders
ChunkArrives ==
    /\ showEditor /\ ~fault /\ openStreams # {} /\ chunksSeen < MaxChunks
    /\ Len(doc) < MaxText
    /\ LET ev == [type |-> "FRAGMENT", sid |-> opened, ch |-> ChunkText[1]]
           m  == Transition(Machine, ev)
       IN  EditorStep(m, RunEffect(EditorState, generatedText, m.generatedText),
                      [Adapter EXCEPT !.chunksSeen = @ + 1], "fragment",
                      NoSession, ChunkText)
    /\ request' = NoRequest

\* the transport's stream ends
StreamEnds ==
    /\ showEditor /\ ~fault /\ openStreams # {}
    /\ LET m == Transition(Machine, [type |-> "COMPLETE", sid |-> opened])
       IN  EditorStep(m, RunEffect(EditorState, generatedText, m.generatedText),
                      AdapterGone, "complete", NoSession, <<>>)
    /\ request' = NoRequest

\* a button of the hover toolbar, whenever the user presses it
Decide(intent) ==
    /\ showEditor /\ ~fault /\ ToolbarShown
    /\ LET m == Transition(Machine, [type |-> intent])
           e == HoverHandler(intent, EditorState)
       IN  EditorStep(m, RunEffect(e, generatedText, m.generatedText),
                      AdapterAfter(m), IF intent = "ACCEPT" THEN "accept" ELSE "reject",
                      NoSession, <<>>)
    /\ request' = NoRequest

NextDocuments ==
    \/ HandleNewDocument
    \/ \E id \in 1..MaxDocs : HandleSelectDocument(id)
    \/ \E id \in 1..MaxDocs : HandleDeleteDocument(id)
    \/ TypeText
    \/ DebouncedSave
    \/ ExitEditor
    \/ EnterEditor

\* The program when the user works the document list, types, and leaves and
\* re-enters the editor, and asks for no suggestion.
SpecDocuments == InitDocuments /\ [][NextDocuments]_vars

NextDocumentSessions ==
    \/ NextDocuments
    \/ ContinueWriting
    \/ ChunkArrives
    \/ StreamEnds
    \/ \E intent \in {"ACCEPT", "REJECT"} : Decide(intent)

\* The same with suggestions: the user also asks for continuations and
\* decides on them.
SpecDocumentSessions == InitDocuments /\ [][NextDocumentSessions]_vars

(***************************************************************************)
(* Claims on the document list and the save, checked under SpecDocuments   *)
(* and SpecDocumentSessions.                                               *)
(***************************************************************************)

\* C31 (no leak into another document): when another document becomes the
\* active one while the machine holds generated text, the Editor opened on
\* it shows the content of that document and nothing of the held text.
C31_NoLeakOnSwitch ==
    [][(showEditor /\ activeDocId' # activeDocId /\ generatedText # <<>>)
       => TextOf(doc') = ContentOf([documents |-> documents',
                                     activeDocId |-> activeDocId',
                                     nextId |-> nextId'])]_vars

\* C32 (no edit is lost): once no save is armed any more, so that nothing
\* further will be written unless the user edits again, every document
\* holds the text its Editor reported last.
C32_NoEditLost ==
    pendingSave = NoSave
    => \A i \in 1..Len(documents) : \A j \in 1..Len(edited) :
           edited[j].id = documents[i].id
           => documents[i].content = edited[j].text

\* C33 (a save goes to the edited document): when the timer fires, the text
\* the Editor reported last is stored in the document that Editor was
\* mounted on, whichever document is active by then, and every other
\* document is left as it is.
C33_SaveToEditedDocument ==
    [][lastOp' = "save"
       => /\ edited # <<>>
          /\ Len(documents') = Len(documents)
          /\ \A i \in 1..Len(documents) :
                documents'[i] = IF documents[i].id = edited[1].id
                                THEN [documents[i] EXCEPT !.content = edited[1].text]
                                ELSE documents[i]]_vars

\* a save has been made to a document other than the active one, whose
\* content is another text
C33_Witness ==
    /\ lastOp = "save" /\ edited # <<>> /\ edited[1].id # activeDocId
    /\ \E i \in 1..Len(documents) :
          /\ documents[i].id = edited[1].id
          /\ documents[i].content = edited[1].text
    /\ ContentOf(Store) # edited[1].text

\* C34 (the source text is the editor's text): the currentText that goes out
\* with a continuation request is the text the Editor shows when Continue
\* Writing is pressed, however shortly after an edit that is.
C34_SourceIsEditorText ==
    [][(lastOp' = "generate" /\ request'.type = "GENERATE")
       => request'.currentText = TextOf(doc)]_vars

\* C35 (the active id is valid): after initialisation, whatever documents
\* were created, deleted and selected through the sidebar, activeDocId is
\* the id of a document of the list.
C35_ActiveIdValid == activeDocId \in DocIds(documents)

\* the document that was being edited has been deleted with its save still
\* armed, and the remaining document is the active one
C35_Witness ==
    /\ lastOp = "delete" /\ Len(documents) = 1
    /\ pendingSave # NoSave /\ pendingSave.id \notin DocIds(documents)
    /\ activeDocId = documents[1].id

\* C36 (the list is never empty): after initialisation there is always a
\* document: an empty store is seeded with one, and the last document
\* cannot be deleted.
C36_ListNeverEmpty == Len(documents) >= 1

\* the store was loaded empty, and all but one of the documents have been
\* deleted, the seeded one among them
C36_Witness ==
    /\ lastOp = "delete" /\ Len(documents) = 1 /\ nextId = MaxDocs + 1
    /\ documents[1].id # 1

=============================================================================
